---- MODULE Spec2Model ----
(***************************************************************************)
(* Verification model of stesalps/pmcp:                                    *)
(*   src/deploy.py               DeploymentConfig, DeploymentManager       *)
(*   src/system_improvements.py  ConfigManager, retry, PerformanceMonitor, *)
(*                               HealthChecker, InputValidator             *)
(*                                                                         *)
(* The specifications share the module, one per component:                 *)
(*   SpecDeploy   runs of DeploymentManager.__init__ / deploy() / main()   *)
(*   SpecConfig   ConfigManager get / set / reload over one directory      *)
(*   SpecRetry    one call of a function wrapped by @retry                 *)
(*   SpecCancel   the same, with a caller that may cancel an async call    *)
(*   SpecMonitor  recordings and summaries of one PerformanceMonitor       *)
(*   SpecHealth   tool executions and health checks of one HealthChecker   *)
(*   SpecValidator  calls of InputValidator.validate_file_path             *)
(*   SpecCallers  concurrent calls of record_tool_execution for one name   *)
(*   SpecSetters  concurrent calls of ConfigManager.set on one namespace   *)
(* Each leaves the variables of the other components at their initial      *)
(* value.                                                                  *)
(***************************************************************************)
EXTENDS Integers, Sequences, FiniteSets, TLC

VARIABLES
    \* ---- DeploymentManager (src/deploy.py) ----
    dpc,            \* position inside deploy(): the next step to run
    environment,    \* self.environment
    version,        \* self.config["version"]
    hostPython,     \* sys.version_info as <<major, minor>>
    hostAbsent,     \* requirement names the host cannot provide
    reqRet,         \* value check_requirements() returned in this run
    depRet,         \* value install_dependencies() returned (or what it raised)
    installerOutcome, \* how the installer subprocess of this run ended ("none": not started)
    written,        \* files written so far by this run
    files,          \* files present on disk
    manifest,       \* content of requirements.txt (<<>> while absent)
    record,         \* content of deployment/deployment_config.json
    clock,          \* the last reading of time.time()
    deployRet,      \* what deploy() gave its caller
    runs,           \* runs started so far: of deploy(), of the constructor, of main()
    ctorResult,     \* outcome of the last DeploymentManager(...) call
    ctorConfigFile, \* that call was given the path of a config file that exists
    argEnv,         \* main(): the environment argument of the last command line
    dryRun,         \* main(): --dry-run was given
    printed,        \* main(): what it printed on stdout
    exitStatus,     \* main(): the exit status of the process (-1: none ended yet)
    \* ---- ConfigManager (src/system_improvements.py) ----
    _configs,       \* self._configs: the forest of namespaces, as a tree
    disk,           \* config_dir: namespace name -> content of <name>.json
    last,           \* the last ConfigManager call and how it ended
    nOps,           \* get/set calls made so far
    \* ---- retry (src/system_improvements.py) ----
    rpc,            \* position inside the wrapper
    wrapper,        \* "sync" or "async": the wrapper the decorator returned
    max_attempts,   \* decorator arguments
    delay,
    backoff,
    exceptions,
    script,         \* what the wrapped function does at its 1st, 2nd, ... call
    attempt,        \* locals of the wrapper
    current_delay,
    calls,          \* invocations of the wrapped function so far
    delays,         \* the delays slept so far, in order
    retryResult,    \* how the wrapper ended
    cancelled,      \* the caller cancelled the task running async_wrapper
    \* ---- PerformanceMonitor, HealthChecker (src/system_improvements.py) ----
    metrics,        \* self.metrics: the one dict object every summary refers to
    toolCalls,      \* per tool name: the record_tool_execution calls made
    errCalls,       \* per error type: the messages of the record_error calls, in order
    nRec,           \* recording calls made so far
    summary,        \* the last value get_summary() returned to a caller
    stale,          \* a recording call was made after that summary was returned
    health,         \* the last report check_system_health() returned
    probe,          \* how the disk and memory checks of that report ended
    \* ---- InputValidator (src/system_improvements.py) ----
    vpath,          \* the path of the last validate_file_path call
    vmust_exist,    \* its must_exist argument
    vexists,        \* what path_obj.exists() answers for it
    vresult,        \* what the call returned
    \* ---- record_tool_execution from several threads ----
    theap,          \* the per-key dict objects created so far
    tslot,          \* the object tool_executions[tool_name] is bound to (0: key absent)
    tpc,            \* per caller: its position inside the method
    tstats,         \* per caller: its local `stats`, a reference into theap
    ttmp,           \* per caller: the value its pending `+=` has read
    targs,          \* per caller: its arguments
    \* ---- ConfigManager.set from several threads ----
    sheap,          \* the dict objects created so far
    sns,            \* the object self._configs[config_name] is bound to (0: absent)
    spc,            \* per setter: its position inside set
    sconfig,        \* per setter: its local `config`, a reference into sheap
    skeys,          \* per setter: its local `keys`
    svalue,         \* per setter: its value argument
    sfile           \* content of <config_name>.json

mainVars == <<ctorConfigFile, argEnv, dryRun, printed, exitStatus>>

deployVars == <<dpc, environment, version, hostPython, hostAbsent, reqRet,
                depRet, installerOutcome, written, files, manifest, record,
                clock, deployRet, runs, ctorResult, mainVars>>

configVars == <<_configs, disk, last, nOps>>

retryVars == <<rpc, wrapper, max_attempts, delay, backoff, exceptions, script,
               attempt, current_delay, calls, delays, retryResult, cancelled>>

monitorVars == <<metrics, toolCalls, errCalls, nRec, summary, stale, health, probe>>

validatorVars == <<vpath, vmust_exist, vexists, vresult>>

callerVars == <<theap, tslot, tpc, tstats, ttmp, targs>>

setterVars == <<sheap, sns, spc, sconfig, skeys, svalue, sfile>>

vars == <<deployVars, configVars, retryVars, monitorVars, validatorVars,
          callerVars, setterVars>>

\* what the actions of one component leave alone
nonDeployVars == <<configVars, retryVars, monitorVars, validatorVars, callerVars, setterVars>>

nonConfigVars == <<deployVars, retryVars, monitorVars, validatorVars, callerVars, setterVars>>

nonRetryVars == <<deployVars, configVars, monitorVars, validatorVars, callerVars, setterVars>>

nonMonitorVars == <<deployVars, configVars, retryVars, validatorVars, callerVars, setterVars>>

nonValidatorVars == <<deployVars, configVars, retryVars, monitorVars, callerVars, setterVars>>

nonCallerVars == <<deployVars, configVars, retryVars, monitorVars, validatorVars, setterVars>>

nonSetterVars == <<deployVars, configVars, retryVars, monitorVars, validatorVars,
                   callerVars>>

Range(s) == {s[i] : i \in DOMAIN s}

(***************************************************************************)
(* Bounds                                                                  *)
(***************************************************************************)
MaxRuns == 2
MaxOps == 3
MaxAttempts == 3
MaxRecords == 4
MaxPathLen == 3
MaxCallers == 2
MaxSetters == 2
MaxKeyParts == 2

(***************************************************************************)
(* DeploymentConfig                                                        *)
(***************************************************************************)
ENVIRONMENTS ==
    [local      |-> [description |-> "Local development environment",
                     requirements |-> <<"python>=3.8", "pip", "git">>,
                     services |-> <<"jupyter", "api_server">>],
     colab      |-> [description |-> "Google Colab environment",
                     requirements |-> <<"google-colab", "ipywidgets">>,
                     services |-> <<"jupyter", "api_server", "frp">>],
     cloud      |-> [description |-> "Cloud deployment (AWS/GCP/Azure)",
                     requirements |-> <<"docker", "docker-compose">>,
                     services |-> <<"api_server", "nginx", "redis">>],
     production |-> [description |-> "Production environment",
                     requirements |-> <<"docker", "kubernetes", "helm">>,
                     services |-> <<"api_server", "nginx", "redis", "monitoring">>]]

CatalogNames == DOMAIN ENVIRONMENTS

\* An environment name outside the catalog, as a caller may pass it.
UnknownNames == {"staging"}

EnvNames == CatalogNames \cup UnknownNames

DEFAULT_CONFIG == [environment |-> "local", version |-> "1.0.0"]

Versions == {DEFAULT_CONFIG.version, "2.0.0"}

PythonVersions == {<<2, 9>>, <<3, 7>>, <<3, 8>>, <<4, 0>>}

\* File names, relative to project_root.
RequirementsFile == "requirements.txt"
EnvFile          == "deployment/.env"
StartupScript    == "deployment/start.sh"
Dockerfile       == "deployment/Dockerfile"
ComposeFile      == "deployment/docker-compose.yml"
NginxConf        == "deployment/nginx.conf"
ServiceUnit      == "deployment/manus-system.service"
RecordFile       == "deployment/deployment_config.json"
LogFile          == "deployment.log"
DeploymentDir    == "deployment/"

DockerFiles == {Dockerfile, ComposeFile, NginxConf}
Descriptors == DockerFiles \cup {ServiceUnit}
Artifacts   == {EnvFile, StartupScript} \cup Descriptors
FileNames   == Artifacts \cup {RequirementsFile, RecordFile, LogFile, DeploymentDir}

NoRecord == [environment |-> "none", deployed_at |-> 0, version |-> "none"]

(***************************************************************************)
(* DeploymentManager.check_requirements and its helpers                    *)
(***************************************************************************)
\* env_config = ENVIRONMENTS.get(self.environment, {}); env_config.get("requirements", [])
requirements(env) ==
    IF env \in CatalogNames THEN ENVIRONMENTS[env].requirements ELSE <<>>

\* `"python" in requirement`
ContainsPython(requirement) == requirement \in {"python>=3.8"}

\* requirement.split(">=")[1], then split(".") and int() of the parts
version_required(requirement) == <<3, 8>>

_check_python_version(required) ==
    \/ hostPython[1] > required[1]
    \/ (hostPython[1] = required[1] /\ hostPython[2] >= required[2])

CommandNames == {"pip", "git", "docker", "docker-compose", "kubectl", "helm"}

\* subprocess.run([command, "--version"], check=True, timeout=10); a missing
\* command, a non-zero exit and a timeout are all caught and give False
_check_command(command) == command \notin hostAbsent

\* one iteration of the loop: does it append requirement to missing_requirements
IsReportedMissing(requirement) ==
    IF ContainsPython(requirement)
    THEN ~_check_python_version(version_required(requirement))
    ELSE IF requirement \in CommandNames
         THEN ~_check_command(requirement)
         ELSE IF requirement = "google-colab"
              THEN "google-colab" \in hostAbsent
              ELSE FALSE

missing_requirements(env) ==
    {r \in Range(requirements(env)) : IsReportedMissing(r)}

check_requirements(env) == missing_requirements(env) = {}

(***************************************************************************)
(* DeploymentManager.install_dependencies                                  *)
(***************************************************************************)
base_requirements ==
    <<"fastapi>=0.104.0", "uvicorn[standard]>=0.24.0", "aiohttp>=3.9.0",
      "aiofiles>=23.2.1", "websockets>=12.0", "requests>=2.31.0",
      "beautifulsoup4>=4.12.0", "nest-asyncio>=1.5.8", "pydantic>=2.5.0",
      "python-multipart>=0.0.6">>

_create_requirements_file(env) ==
    IF env = "colab"
    THEN base_requirements \o <<"ipywidgets>=8.1.0", "google-colab">>
    ELSE IF env \in {"cloud", "production"}
         THEN base_requirements \o
              <<"redis>=5.0.0", "psycopg2-binary>=2.9.0", "gunicorn>=21.2.0">>
         ELSE base_requirements

\* what subprocess.run(pip install, check=True, timeout=300) can do
InstallerOutcomes == {"ok", "nonzero", "timeout"}

\* try: run(...); return True / except CalledProcessError: return False.
\* TimeoutExpired is not a CalledProcessError and leaves the method.
install_dependencies_result(outcome) ==
    CASE outcome = "ok"      -> "True"
      [] outcome = "nonzero" -> "False"
      [] outcome = "timeout" -> "TimeoutExpired"

(***************************************************************************)
(* DeploymentManager.__init__                                              *)
(***************************************************************************)
\* setup_logging() builds logging.FileHandler(self.project_root / ...) before
\* __init__ has assigned self.project_root; with a config file that exists,
\* load_config() uses self.logger before setup_logging() has assigned it, in
\* the try block and again in its except handler.  Both ways the constructor
\* ends with AttributeError, before deployment_dir.mkdir and before any
\* FileHandler has opened the log file.
__init__result(env, config_file_exists) == "AttributeError"

__init__writes(env, config_file_exists) == {}

ConstructWith(env, config_file_exists) ==
    /\ UNCHANGED nonDeployVars
    /\ runs' = runs + 1
    /\ environment' = env
    /\ ctorResult' = __init__result(env, config_file_exists)
    /\ ctorConfigFile' = config_file_exists
    /\ written' = __init__writes(env, config_file_exists)
    /\ files' = files \cup __init__writes(env, config_file_exists)
    /\ reqRet' = "none"
    /\ depRet' = "none"
    /\ installerOutcome' = "none"
    /\ deployRet' = "none"
    /\ UNCHANGED <<dpc, version, hostPython, hostAbsent, manifest, record, clock>>

Construct ==
    /\ dpc = "idle"
    /\ runs < MaxRuns
    /\ UNCHANGED <<argEnv, dryRun, printed, exitStatus>>
    /\ \E env \in EnvNames, config_file_exists \in BOOLEAN :
          ConstructWith(env, config_file_exists)

(***************************************************************************)
(* main()                                                                  *)
(***************************************************************************)
\* the three lines main() prints about the environment
env_info(env) ==
    <<env, ENVIRONMENTS[env].description, ENVIRONMENTS[env].services>>

DryRunLine == "DRY RUN MODE - No changes will be made"

\* a main() that goes on to the manager whatever --dry-run says
main_returns_never(dry_run) == FALSE

\* `if args.dry_run: print(...); return`
main_returns(dry_run) == dry_run

\* One run of the command line.  argparse ends the process with status 2
\* when the environment is not one of the choices.  A dry run prints and
\* returns, and the process ends with status 0.  Otherwise the manager is
\* constructed: the constructor raises, nothing catches the exception,
\* manager.deploy() is not reached and the process ends with status 1.
MainWith(env, dry_run, config_file_exists) ==
    /\ argEnv' = env
    /\ dryRun' = dry_run
    /\ IF env \notin CatalogNames
       THEN /\ printed' = <<>>
            /\ exitStatus' = 2
            /\ runs' = runs + 1
            /\ UNCHANGED <<nonDeployVars, environment, ctorResult,
                           ctorConfigFile, written, files, reqRet, depRet,
                           installerOutcome, deployRet, dpc, version,
                           hostPython, hostAbsent, manifest, record, clock>>
       ELSE IF main_returns(dry_run)
            THEN /\ printed' = Append(env_info(env), DryRunLine)
                 /\ exitStatus' = 0
                 /\ runs' = runs + 1
                 /\ UNCHANGED <<nonDeployVars, environment, ctorResult,
                                ctorConfigFile, written, files, reqRet, depRet,
                                installerOutcome, deployRet, dpc, version,
                                hostPython, hostAbsent, manifest, record, clock>>
            ELSE /\ printed' = env_info(env)
                 /\ exitStatus' = 1
                 /\ ConstructWith(env, config_file_exists)

Main ==
    /\ dpc = "idle"
    /\ runs < MaxRuns
    /\ \E env \in EnvNames, dry_run \in BOOLEAN, config_file_exists \in BOOLEAN :
          MainWith(env, dry_run, config_file_exists)

(***************************************************************************)
(* DeploymentManager.deploy, one action per step of its body               *)
(***************************************************************************)
\* deploy() is a method of a manager whose attributes are set (environment,
\* config, project_root, deployment_dir, logger).  The host is sampled when
\* the run starts.
DeployStartWith(env, ver, py, absent) ==
    /\ UNCHANGED <<nonDeployVars, mainVars>>
    /\ runs' = runs + 1
    /\ environment' = env
    /\ version' = ver
    /\ hostPython' = py
    /\ hostAbsent' = absent
    /\ reqRet' = "none"
    /\ depRet' = "none"
    /\ installerOutcome' = "none"
    /\ written' = {}
    /\ deployRet' = "none"
    /\ ctorResult' = "none"
    /\ dpc' = "check_requirements"
    /\ UNCHANGED <<files, manifest, record, clock>>

\* `if not self.check_requirements(): return False`
RequirementsGate(ok) == ok

DeployCheckRequirements ==
    /\ UNCHANGED <<nonDeployVars, mainVars>>
    /\ dpc = "check_requirements"
    /\ reqRet' = IF check_requirements(environment) THEN "True" ELSE "False"
    /\ IF RequirementsGate(check_requirements(environment))
       THEN dpc' = "install_dependencies" /\ UNCHANGED deployRet
       ELSE dpc' = "returned" /\ deployRet' = "False"
    /\ UNCHANGED <<environment, version, hostPython, hostAbsent, depRet,
                   installerOutcome, written, files, manifest, record, clock,
                   runs, ctorResult>>

\* a deploy() that goes on whatever install_dependencies() returned
DependenciesGate_ignored(ret) == TRUE

\* `if not self.install_dependencies(): return False`
DependenciesGate(ret) == ret = "True"

\* a test that takes the manifest for absent whatever is on disk
manifest_absent_always(fs) == TRUE

\* `if not requirements_file.exists()`
manifest_absent(fs) == RequirementsFile \notin fs

DeployInstallDependenciesWith(outcome) ==
    /\ UNCHANGED <<nonDeployVars, mainVars>>
    /\ IF manifest_absent(files)
       THEN /\ files' = files \cup {RequirementsFile}
            /\ manifest' = _create_requirements_file(environment)
            /\ written' = written \cup {RequirementsFile}
       ELSE UNCHANGED <<files, manifest, written>>
    /\ installerOutcome' = outcome
    /\ depRet' = install_dependencies_result(outcome)
    /\ IF install_dependencies_result(outcome) = "TimeoutExpired"
       THEN dpc' = "returned" /\ deployRet' = "TimeoutExpired"
       ELSE IF DependenciesGate(install_dependencies_result(outcome))
            THEN dpc' = "create_environment_file" /\ UNCHANGED deployRet
            ELSE dpc' = "returned" /\ deployRet' = "False"
    /\ UNCHANGED <<environment, version, hostPython, hostAbsent, reqRet,
                   record, clock, runs, ctorResult>>

DeployInstallDependencies ==
    /\ dpc = "install_dependencies"
    /\ \E outcome \in InstallerOutcomes : DeployInstallDependenciesWith(outcome)

WriteFiles(fs, next) ==
    /\ UNCHANGED <<nonDeployVars, mainVars>>
    /\ files' = files \cup fs
    /\ written' = written \cup fs
    /\ dpc' = next
    /\ UNCHANGED <<environment, version, hostPython, hostAbsent, reqRet,
                   depRet, installerOutcome, manifest, record, clock, deployRet,
                   runs, ctorResult>>

DeployCreateEnvironmentFile ==
    /\ dpc = "create_environment_file"
    /\ WriteFiles({EnvFile}, "create_startup_script")

DeployCreateStartupScript ==
    /\ dpc = "create_startup_script"
    /\ WriteFiles({StartupScript}, "create_descriptors")

create_docker_files(env) ==
    IF env \notin {"cloud", "production"} THEN {} ELSE DockerFiles

create_systemd_service(env) ==
    IF env # "local" THEN {} ELSE {ServiceUnit}

\* a dispatch whose second branch is an else: a service unit wherever no
\* container descriptor is written
descriptors_else_unit(env) ==
    IF env \in {"cloud", "production"}
    THEN create_docker_files(env)
    ELSE {ServiceUnit}

\* if environment in [cloud, production]: create_docker_files()
\* elif environment == "local": create_systemd_service()
descriptors(env) ==
    IF env \in {"cloud", "production"}
    THEN create_docker_files(env)
    ELSE IF env = "local" THEN create_systemd_service(env) ELSE {}

DeployCreateDescriptors ==
    /\ dpc = "create_descriptors"
    /\ WriteFiles(descriptors(environment), "save_record")

\* what time.time() can give when its last reading was `before`: the wall
\* clock has moved on, or it has been set back since
time_time(before) == {t \in {before - 1, before + 1} : t >= 1}

\* a record that carries the default version
deployment_config_default_version(env, now, ver) ==
    [environment |-> env, deployed_at |-> now, version |-> DEFAULT_CONFIG.version]

\* the dict deploy() dumps to deployment_config.json (the config snapshot
\* is left out)
deployment_config(env, now, ver) ==
    [environment |-> env, deployed_at |-> now, version |-> ver]

DeploySaveRecordWith(now) ==
    /\ UNCHANGED <<nonDeployVars, mainVars>>
    /\ clock' = now
    /\ record' = deployment_config(environment, now, version)
    /\ files' = files \cup {RecordFile}
    /\ written' = written \cup {RecordFile}
    /\ deployRet' = "True"
    /\ dpc' = "returned"
    /\ UNCHANGED <<environment, version, hostPython, hostAbsent, reqRet,
                   depRet, installerOutcome, manifest, runs, ctorResult>>

DeploySaveRecord ==
    /\ dpc = "save_record"
    /\ \E now \in time_time(clock) : DeploySaveRecordWith(now)

\* the caller has the result; the next run may start
DeployReturn ==
    /\ UNCHANGED <<nonDeployVars, mainVars>>
    /\ dpc = "returned"
    /\ dpc' = "idle"
    /\ UNCHANGED <<environment, version, hostPython, hostAbsent, reqRet,
                   depRet, installerOutcome, written, files, manifest, record,
                   clock, deployRet, runs, ctorResult>>

\* requirement names whose presence the host decides (the python
\* requirement is decided by hostPython)
HostProvided(env) == {r \in Range(requirements(env)) : ~ContainsPython(r)}

DeployStart ==
    /\ dpc = "idle"
    /\ runs < MaxRuns
    /\ \E env \in EnvNames, ver \in Versions, py \in PythonVersions :
          \E absent \in SUBSET HostProvided(env) :
             DeployStartWith(env, ver, py, absent)

InitDeploy ==
    /\ dpc = "idle"
    /\ environment = DEFAULT_CONFIG.environment
    /\ version = DEFAULT_CONFIG.version
    /\ hostPython = <<3, 8>>
    /\ hostAbsent = {}
    /\ reqRet = "none"
    /\ depRet = "none"
    /\ installerOutcome = "none"
    /\ written = {}
    /\ files = {}
    /\ manifest = <<>>
    /\ record = NoRecord
    /\ clock = 1
    /\ deployRet = "none"
    /\ runs = 0
    /\ ctorResult = "none"
    /\ ctorConfigFile = FALSE
    /\ argEnv = "none"
    /\ dryRun = FALSE
    /\ printed = <<>>
    /\ exitStatus = -1

NextDeploy ==
    \/ Construct
    \/ Main
    \/ DeployStart
    \/ DeployCheckRequirements
    \/ DeployInstallDependencies
    \/ DeployCreateEnvironmentFile
    \/ DeployCreateStartupScript
    \/ DeployCreateDescriptors
    \/ DeploySaveRecord
    \/ DeployReturn

(***************************************************************************)
(* Claims about DeploymentManager (specification SpecDeploy)               *)
(***************************************************************************)
Outputs == Artifacts \cup {RecordFile}

\* C1: a run of deploy() writes the deployment record, the env file, the
\* startup script or a descriptor only after check_requirements() and then
\* install_dependencies() have both returned True in that same run.
C1_RecordOnlyAfterBothGates ==
    /\ (written \cap Outputs # {}) => (reqRet = "True" /\ depRet = "True")
    /\ (depRet # "none") => (reqRet = "True")

C1_Witness ==
    /\ RecordFile \in written
    /\ reqRet = "True"
    /\ depRet = "True"
    /\ deployRet = "True"

\* a requirement of the environment is missing on the host: the interpreter
\* is older than 3.8, or the named tool is not there
MissingOnHost(requirement) ==
    IF ContainsPython(requirement)
    THEN hostPython[1] < 3 \/ (hostPython[1] = 3 /\ hostPython[2] < 8)
    ELSE requirement \in hostAbsent

\* C2: for every catalog environment and every entry of its required-tools
\* list, if that tool is missing on the host then deploy() returns false,
\* the installer is not invoked and nothing is written.
C2_MissingToolAborts ==
    (/\ environment \in CatalogNames
     /\ reqRet # "none"
     /\ \E r \in Range(requirements(environment)) : MissingOnHost(r))
    => (/\ deployRet = "False"
        /\ installerOutcome = "none"
        /\ written = {})

\* C3: if the installer subprocess fails (non-zero exit or timeout), deploy()
\* returns false, does not raise, and writes no env file, startup script,
\* descriptor or record.
C3_InstallerFailureReturnsFalse ==
    (installerOutcome \in {"nonzero", "timeout"})
    => (deployRet = "False" /\ written \cap Outputs = {})

\* C4: for every environment name outside the catalog, constructing the
\* manager and/or calling deploy() rejects the run before any file-system
\* write occurs.
C4_UnknownEnvironmentRejected ==
    (/\ environment \notin CatalogNames
     /\ (ctorResult # "none" \/ reqRet # "none"))
    => (written = {} /\ deployRet # "True")

\* C16: a deploy() that returned True has written, beside the manifest, the
\* env file, the startup script and the record, and with them exactly the
\* three container descriptors for cloud and production, exactly the
\* service unit for local, and no descriptor at all for colab; when it was
\* the first run, these are the files the deployment directory holds.
C16_DescriptorsPerEnvironment ==
    (deployRet = "True" /\ environment \in CatalogNames) =>
        LET common == {EnvFile, StartupScript, RecordFile}
            inDir == written \ {RequirementsFile}
            expected == IF environment \in {"cloud", "production"} THEN DockerFiles
                        ELSE IF environment = "local" THEN {ServiceUnit}
                        ELSE {}
        IN  /\ inDir = common \cup expected
            /\ Cardinality(inDir \cap Descriptors)
                    = (IF environment \in {"cloud", "production"} THEN 3
                       ELSE IF environment = "local" THEN 1 ELSE 0)
            /\ runs = 1 => (files \cap (Artifacts \cup {RecordFile})) = inDir

\* a first run for the cloud environment that returned True
C16_Witness ==
    /\ deployRet = "True"
    /\ runs = 1
    /\ environment = "cloud"
    /\ DockerFiles \subseteq files
    /\ ServiceUnit \notin files

\* C17: a DeploymentManager(...) call given the path of an existing config
\* file that holds a JSON object completes.
C17_ConfigFileConstructs ==
    (ctorResult # "none" /\ ctorConfigFile) => ctorResult = "ok"

\* the effects of a dry run on everything but what main() printed and the
\* exit status: none
DryRunFrame ==
    UNCHANGED <<dpc, environment, version, hostPython, hostAbsent, reqRet,
                depRet, installerOutcome, written, files, manifest, record,
                clock, deployRet, ctorResult, ctorConfigFile>>

\* C18: a command line with --dry-run and one of the four environments of
\* the catalog prints the profile of that environment, constructs no
\* manager, writes no file and ends the process with status 0.
C18_DryRunWritesNothing ==
    [][(Main /\ dryRun' /\ argEnv' \in CatalogNames) =>
            /\ exitStatus' = 0
            /\ SubSeq(printed', 1, 3)
                    = <<argEnv', ENVIRONMENTS[argEnv'].description,
                        ENVIRONMENTS[argEnv'].services>>
            /\ DryRunFrame]_vars

\* a dry run for production, after a deployment that wrote its files
C18_Witness ==
    /\ dryRun
    /\ argEnv = "production"
    /\ exitStatus = 0
    /\ Len(printed) = 4
    /\ ctorResult = "none"
    /\ RecordFile \in files
    /\ runs = 2

(***************************************************************************)
(* ConfigManager                                                           *)
(*                                                                         *)
(* A JSON value is a tree: a function from paths (sequences of keys) to    *)
(* node tags, the root being the path <<>>.  A mapping has the tag DICT    *)
(* and one child per key; anything else is a leaf carrying its value.      *)
(* A key is a sequence of characters; a dotted key is one too.             *)
(***************************************************************************)
DICT == "dict"

Leaf(v) == (<<>> :> v)

EmptyDict == (<<>> :> DICT)

IsPrefix(p, r) == Len(p) <= Len(r) /\ SubSeq(r, 1, Len(p)) = p

\* the value found at path p of tree t (p \in DOMAIN t)
Subtree(t, p) ==
    LET below == {r \in DOMAIN t : IsPrefix(p, r)}
    IN  [q \in {SubSeq(r, Len(p) + 1, Len(r)) : r \in below} |-> t[p \o q]]

\* container[key] = value: whatever was at path p is replaced by v
Graft(t, p, v) ==
    LET keep == {r \in DOMAIN t : ~IsPrefix(p, r)}
    IN  [r \in keep \cup {p \o q : q \in DOMAIN v} |->
            IF r \in keep THEN t[r] ELSE v[SubSeq(r, Len(p) + 1, Len(r))]]

\* the dotted keys that are passed to get and set:
\* "a", "b", "a.b", "b.c", "a.b.c"
Keys == {<<"a">>, <<"b">>, <<"a", ".", "b">>, <<"b", ".", "c">>,
         <<"a", ".", "b", ".", "c">>}

user_config == <<"u", "s", "e", "r", "_", "c", "o", "n", "f", "i", "g">>

\* names of the namespaces (file stems) that are used
NsNames == {user_config, <<"a">>}

\* the values passed to set: 1, 2, {} and {"c": 1}
Values == {Leaf("1"), Leaf("2"), EmptyDict, Graft(EmptyDict, << <<"c">> >>, Leaf("1"))}

Sentinel == Leaf("sentinel")

NoFile == <<>>

\* key.split('.')
RECURSIVE split(_)
split(key) ==
    IF key = <<>> THEN << <<>> >>
    ELSE LET rest == split(Tail(key))
         IN  IF Head(key) = "."
             THEN << <<>> >> \o rest
             ELSE << <<Head(key)>> \o Head(rest) >> \o Tail(rest)

\* the loop of get: value is the node at path p of t
RECURSIVE get_loop(_, _, _, _)
get_loop(t, p, keys, default) ==
    IF keys = <<>> THEN [raised |-> "none", result |-> Subtree(t, p)]
    ELSE IF t[p] = DICT /\ Append(p, Head(keys)) \in DOMAIN t
         THEN get_loop(t, Append(p, Head(keys)), Tail(keys), default)
         ELSE [raised |-> "none", result |-> default]

\* a get that answers None for a missing key, whatever default was passed
get_ignoring_default(t, key, default) ==
    get_loop(t, <<>>, split(key), Leaf("null"))

get(t, key, default) == get_loop(t, <<>>, split(key), default)

\* the body of set from `config = self._configs[config_name]` on: config is
\* the node at path p of t; a node that is no mapping raises TypeError at
\* `k not in config` or at the item assignment
RECURSIVE set_loop(_, _, _, _)
set_loop(t, p, keys, value) ==
    IF t[p] # DICT THEN [tree |-> t, raised |-> "TypeError"]
    ELSE IF Len(keys) = 1
         THEN [tree |-> Graft(t, Append(p, keys[1]), value), raised |-> "none"]
         ELSE LET child == Append(p, Head(keys))
                  t1 == IF child \notin DOMAIN t
                        THEN Graft(t, child, EmptyDict) ELSE t
              IN  set_loop(t1, child, Tail(keys), value)

\* a save that always writes the default namespace
_save_config_default_only(t, config_name, d) ==
    IF <<user_config>> \in DOMAIN t
    THEN [d EXCEPT ![user_config] = Subtree(t, <<user_config>>)]
    ELSE d

\* json.dump(self._configs[config_name], f) into <config_name>.json
_save_config(t, config_name, d) ==
    [d EXCEPT ![config_name] = Subtree(t, <<config_name>>)]

set(t, d, key, value, config_name) ==
    LET t0 == IF <<config_name>> \notin DOMAIN t
              THEN Graft(t, <<config_name>>, EmptyDict) ELSE t
        r  == set_loop(t0, <<config_name>>, split(key), value)
    IN  [configs |-> r.tree,
         disk    |-> IF r.raised = "none"
                     THEN _save_config(r.tree, config_name, d) ELSE d,
         raised  |-> r.raised]

\* self._configs = {} and then one namespace per *.json file, keyed by stem
RECURSIVE load_files(_, _, _)
load_files(t, d, names) ==
    IF names = {} THEN t
    ELSE LET n == CHOOSE x \in names : TRUE
         IN  load_files(Graft(t, <<n>>, d[n]), d, names \ {n})

_load_all_configs(d) ==
    load_files(EmptyDict, d, {n \in DOMAIN d : d[n] # NoFile})

NoCall == [op |-> "none", key |-> <<>>, ns |-> <<>>, value |-> NoFile,
           default |-> NoFile, raised |-> "none", result |-> NoFile]

GetWith(key, default) ==
    /\ UNCHANGED nonConfigVars
    /\ nOps' = nOps + 1
    /\ last' = [NoCall EXCEPT !.op = "get", !.key = key, !.default = default,
                              !.raised = get(_configs, key, default).raised,
                              !.result = get(_configs, key, default).result]
    /\ UNCHANGED <<_configs, disk>>

Get ==
    /\ nOps < MaxOps
    /\ \E key \in Keys : GetWith(key, Sentinel)

SetWith(key, value, config_name) ==
    /\ UNCHANGED nonConfigVars
    /\ nOps' = nOps + 1
    /\ LET r == set(_configs, disk, key, value, config_name)
       IN  /\ _configs' = r.configs
           /\ disk' = r.disk
           /\ last' = [NoCall EXCEPT !.op = "set", !.key = key,
                                     !.ns = config_name, !.value = value,
                                     !.raised = r.raised]

Set ==
    /\ nOps < MaxOps
    /\ \E key \in Keys, value \in Values, config_name \in NsNames :
          SetWith(key, value, config_name)

\* a ConfigManager constructed afresh on the same directory
Reload ==
    /\ UNCHANGED nonConfigVars
    /\ _configs' = _load_all_configs(disk)
    /\ last' = [NoCall EXCEPT !.op = "load"]
    /\ UNCHANGED <<disk, nOps>>

InitConfig ==
    /\ disk = [n \in NsNames |-> NoFile]
    /\ _configs = _load_all_configs(disk)
    /\ last = NoCall
    /\ nOps = 0

NextConfig ==
    \/ Get
    \/ Set
    \/ Reload


\* a step that writes the deployment record is the last step of a run that
\* passed both gates, and the record written is that run's
RecordWrittenBySuccess ==
    [][record' # record =>
        /\ dpc = "save_record" /\ reqRet = "True" /\ depRet = "True"
        /\ deployRet' = "True"
        /\ record'.environment = environment
        /\ record'.version = version
        /\ record'.deployed_at = clock']_vars

\* while deploy() has returned True, the record is the one of that run
RecordOfLastSuccess ==
    deployRet = "True" =>
        /\ record.environment = environment
        /\ record.version = version
        /\ record.deployed_at = clock

\* C27 as stated: after any sequence of runs the record is that of the most
\* recent run that returned True, with that run's environment and version;
\* a run that fails at a gate leaves the record as it was; and each record
\* written has a deployed_at not earlier than the one it replaces.
C27_RecordOfLastSuccessOrdered ==
    /\ []RecordOfLastSuccess
    /\ RecordWrittenBySuccess
    /\ [][record # NoRecord => record'.deployed_at >= record.deployed_at]_vars

\* C27 amended: the same without the order of the deployed_at values, which
\* are readings of the wall clock: the record is that of the most recent
\* run that returned True, with its environment, its version and the time
\* it read, and no other step changes the record.
C27_RecordOfLastSuccess ==
    /\ []RecordOfLastSuccess
    /\ RecordWrittenBySuccess

\* a successful run for one environment, then a run for another version
\* that failed at a gate: the record is still the first run's
C27_Witness ==
    /\ runs = 2
    /\ dpc = "returned"
    /\ deployRet = "False"
    /\ record # NoRecord
    /\ record.version # version
    /\ RecordFile \notin written


\* the lines a manifest created for env holds after the base list
EnvAdditions(env) ==
    CASE env = "colab" -> <<"ipywidgets>=8.1.0", "google-colab">>
      [] env \in {"cloud", "production"} ->
            <<"redis>=5.0.0", "psycopg2-binary>=2.9.0", "gunicorn>=21.2.0">>
      [] OTHER -> <<>>

\* C28: no step changes or removes a requirements.txt that exists; one is
\* created only by the install step of a run that finds none, with the base
\* list followed by the additions of that run's environment; so the
\* manifest keeps the additions of the environment that created it through
\* later runs for other environments, and it stays when the installer of
\* the creating run fails.
C28_ManifestWriteOnce ==
    /\ [][(RequirementsFile \in files) =>
            (RequirementsFile \in files' /\ manifest' = manifest)]_vars
    /\ [][(RequirementsFile \notin files /\ RequirementsFile \in files') =>
            /\ dpc = "install_dependencies"
            /\ manifest' = base_requirements \o EnvAdditions(environment)
            /\ RequirementsFile \in written']_vars
    /\ [][(dpc = "install_dependencies" /\ dpc' # dpc) =>
            RequirementsFile \in files']_vars

\* a manifest created for colab by a run whose installer failed, met by the
\* install step of a later run for production
C28_Witness ==
    /\ runs = 2
    /\ environment = "production"
    /\ depRet # "none"
    /\ manifest = base_requirements \o EnvAdditions("colab")
    /\ RequirementsFile \in files
    /\ RequirementsFile \notin written
    /\ record = NoRecord


(***************************************************************************)
(* Claims about ConfigManager (specification SpecConfig)                   *)
(***************************************************************************)
\* C5: set(key, v) on the default namespace followed by get(key, sentinel)
\* with the same key returns v and not the sentinel.
C5_SetGetRoundTrip ==
    (last.op = "set" /\ last.raised = "none" /\ last.ns = user_config)
    => get(_configs, last.key, Sentinel).result = last.value

\* C6: set succeeds without raising from every reachable store state and
\* for every dotted key, also when an earlier set stored a non-mapping value
\* at a prefix of the key.
C6_SetNeverRaises == last.op = "set" => last.raised = "none"

\* the proper prefixes of the path of a key
ProperPrefixes(path) == {SubSeq(path, 1, n) : n \in 0..(Len(path) - 1)}

\* C7: get(key, default) never raises and never changes the store; it
\* returns the value at the path of the key when every segment is found in a
\* mapping, and default otherwise, so always default on an empty store.
C7_GetTotalAndPure ==
    /\ [](last.op = "get" =>
            /\ last.raised = "none"
            /\ last.result = IF split(last.key) \in DOMAIN _configs
                             THEN Subtree(_configs, split(last.key))
                             ELSE last.default
            /\ (_configs = EmptyDict => last.result = last.default))
    /\ [][last'.op = "get" => (_configs' = _configs /\ disk' = disk)]_vars

\* a get that ran into a node that is no mapping and answered default
C7_Witness ==
    /\ last.op = "get"
    /\ last.result = last.default
    /\ \E p \in ProperPrefixes(split(last.key)) :
          p \in DOMAIN _configs /\ _configs[p] # DICT

NsValue(t, n) == IF <<n>> \in DOMAIN t THEN Subtree(t, <<n>>) ELSE NoFile

ExceptionClasses == {"ValueError", "KeyError"}

Outcomes == {"ok"} \cup ExceptionClasses

RECURSIVE Scripts(_)
Scripts(n) ==
    IF n = 0 THEN {<<>>}
    ELSE {Append(w, o) : w \in Scripts(n - 1), o \in Outcomes}

InitialDelays == {0, 1, 3}

Backoffs == {1, 2}

\* the values of the `exceptions` argument: one class, the classes the
\* function raises, or (BaseException,), which CancelledError matches too
ExceptionTuples ==
    {{"ValueError"}, ExceptionClasses, ExceptionClasses \cup {"CancelledError"}}

NoResult == [kind |-> "none", from |-> 0]

\* a loop that stops one attempt early
sync_wrapper_while_short(a, m) == a < m

\* `while attempt <= max_attempts`
sync_wrapper_while(a, m) == a <= m

\* a try statement that sleeps after the last attempt too
sync_wrapper_try_sleeps_last(a, m, outcome, excs) ==
    IF outcome = "ok" THEN "return"
    ELSE IF outcome \in excs THEN "sleep" ELSE "raise"

\* the try statement of sync_wrapper, for a call of func that ended with
\* outcome: return its value, re-raise or let pass its exception, or go on
\* to time.sleep
sync_wrapper_try(a, m, outcome, excs) ==
    IF outcome = "ok" THEN "return"
    ELSE IF outcome \in excs
         THEN IF a = m THEN "raise" ELSE "sleep"
         ELSE "raise"

\* a loop that runs one attempt more than max_attempts
async_wrapper_while_long(a, m) == a <= m + 1

\* `while attempt <= max_attempts`
async_wrapper_while(a, m) == a <= m

\* an except clause that catches every exception class
async_wrapper_try_catch_all(a, m, outcome, excs) ==
    IF outcome = "ok" THEN "return"
    ELSE IF a = m THEN "raise" ELSE "sleep"

\* the try statement of async_wrapper
async_wrapper_try(a, m, outcome, excs) ==
    IF outcome = "ok" THEN "return"
    ELSE IF outcome \in excs
         THEN IF a = m THEN "raise" ELSE "sleep"
         ELSE "raise"

\* the values of the max_attempts argument, -1 and 0 among them
MaxAttemptsArgs == (0 - 1)..MaxAttempts

\* the decorated function is called
RetryCallWith(w, m, d, b, excs, sc) ==
    /\ UNCHANGED nonRetryVars
    /\ wrapper' = w
    /\ max_attempts' = m
    /\ delay' = d
    /\ backoff' = b
    /\ exceptions' = excs
    /\ script' = sc
    /\ attempt' = 1
    /\ current_delay' = d
    /\ calls' = 0
    /\ delays' = <<>>
    /\ retryResult' = NoResult
    /\ cancelled' = FALSE
    /\ rpc' = "loop"

RetryCall ==
    /\ rpc = "idle"
    /\ \E w \in {"sync", "async"}, m \in MaxAttemptsArgs, d \in InitialDelays,
          b \in Backoffs, excs \in ExceptionTuples, sc \in Scripts(MaxAttempts) :
            RetryCallWith(w, m, d, b, excs, sc)

\* one pass through the loop body up to the return, the raise or the sleep
Invoke(step) ==
    /\ calls' = calls + 1
    /\ IF step = "return"
       THEN rpc' = "done" /\ retryResult' = [kind |-> "return", from |-> calls + 1]
       ELSE IF step = "raise"
            THEN rpc' = "done" /\ retryResult' = [kind |-> "raise", from |-> calls + 1]
            ELSE rpc' = "sleep" /\ UNCHANGED retryResult
    /\ UNCHANGED <<wrapper, max_attempts, delay, backoff, exceptions, script,
                   attempt, current_delay, delays, cancelled>>

\* a backoff that adds the multiplier
next_delay_added(cd, b) == cd + b

\* `current_delay *= backoff`
next_delay(cd, b) == cd * b

\* the sleep, then `attempt += 1` and `current_delay *= backoff`
Sleep ==
    /\ delays' = Append(delays, current_delay)
    /\ attempt' = attempt + 1
    /\ current_delay' = next_delay(current_delay, backoff)
    /\ rpc' = "loop"
    /\ UNCHANGED <<wrapper, max_attempts, delay, backoff, exceptions, script,
                   calls, retryResult, cancelled>>

\* the loop is left: `return None`
ReturnNone ==
    /\ rpc' = "done"
    /\ retryResult' = [kind |-> "None", from |-> 0]
    /\ UNCHANGED <<wrapper, max_attempts, delay, backoff, exceptions, script,
                   attempt, current_delay, calls, delays, cancelled>>

\* what the next call of the wrapped function does
NextOutcome == IF calls + 1 \in DOMAIN script THEN script[calls + 1] ELSE "ok"

SyncInvoke ==
    /\ UNCHANGED nonRetryVars
    /\ rpc = "loop" /\ wrapper = "sync"
    /\ sync_wrapper_while(attempt, max_attempts)
    /\ Invoke(sync_wrapper_try(attempt, max_attempts, NextOutcome, exceptions))

SyncSleep ==
    /\ UNCHANGED nonRetryVars
    /\ rpc = "sleep" /\ wrapper = "sync"
    /\ Sleep

SyncReturnNone ==
    /\ UNCHANGED nonRetryVars
    /\ rpc = "loop" /\ wrapper = "sync"
    /\ ~sync_wrapper_while(attempt, max_attempts)
    /\ ReturnNone

AsyncInvoke ==
    /\ UNCHANGED nonRetryVars
    /\ rpc = "loop" /\ wrapper = "async"
    /\ async_wrapper_while(attempt, max_attempts)
    /\ Invoke(async_wrapper_try(attempt, max_attempts, NextOutcome, exceptions))

AsyncSleep ==
    /\ UNCHANGED nonRetryVars
    /\ rpc = "sleep" /\ wrapper = "async"
    /\ Sleep

AsyncReturnNone ==
    /\ UNCHANGED nonRetryVars
    /\ rpc = "loop" /\ wrapper = "async"
    /\ ~async_wrapper_while(attempt, max_attempts)
    /\ ReturnNone

InitRetry ==
    /\ rpc = "idle"
    /\ wrapper = "sync"
    /\ max_attempts = 3
    /\ delay = 1
    /\ backoff = 2
    /\ exceptions = ExceptionClasses
    /\ script = <<>>
    /\ attempt = 1
    /\ current_delay = 1
    /\ calls = 0
    /\ delays = <<>>
    /\ retryResult = NoResult
    /\ cancelled = FALSE

NextRetry ==
    \/ RetryCall
    \/ SyncInvoke
    \/ SyncSleep
    \/ SyncReturnNone
    \/ AsyncInvoke
    \/ AsyncSleep
    \/ AsyncReturnNone

\* a sleep that is part of the try body, so that the except clause sees
\* the CancelledError
async_wrapper_sleep_cancelled_in_try(excs) ==
    IF "CancelledError" \in excs THEN "sleep" ELSE "raise"

\* CancelledError comes out of `await asyncio.sleep(current_delay)`: the
\* await stands in the except handler, where no except clause covers it
async_wrapper_sleep_cancelled(excs) == "raise"

\* the caller cancels the task while async_wrapper is suspended in the sleep
AsyncCancel ==
    /\ UNCHANGED nonRetryVars
    /\ rpc = "sleep" /\ wrapper = "async" /\ ~cancelled
    /\ cancelled' = TRUE
    /\ IF async_wrapper_sleep_cancelled(exceptions) = "raise"
       THEN rpc' = "done" /\ retryResult' = [kind |-> "CancelledError", from |-> 0]
       ELSE UNCHANGED <<rpc, retryResult>>
    /\ UNCHANGED <<wrapper, max_attempts, delay, backoff, exceptions, script,
                   attempt, current_delay, calls, delays>>

NextCancel == NextRetry \/ AsyncCancel


(***************************************************************************)
(* Claims about retry (specification SpecRetry)                            *)
(***************************************************************************)
\* the number of calls that fail before the first one that returns
LeadingFailures(sc) ==
    CHOOSE k \in 0..Len(sc) :
        /\ \A i \in 1..k : sc[i] # "ok"
        /\ (k = Len(sc) \/ sc[k + 1] = "ok")

AllRetryable(sc, excs) == \A i \in DOMAIN sc : sc[i] = "ok" \/ sc[i] \in excs

\* C9: with max_attempts = m >= 1 and every failure retryable, a function
\* that fails k < m times and then succeeds is invoked k+1 times with k
\* delays and its result is returned; one that fails at each of its m calls
\* is invoked m times with m-1 delays and the exception object of the last
\* call reaches the caller.
C9_AttemptBound ==
    (rpc = "done" /\ max_attempts >= 1 /\ AllRetryable(script, exceptions))
    => LET k == LeadingFailures(script)
       IN  IF k < max_attempts
           THEN /\ calls = k + 1
                /\ Len(delays) = k
                /\ retryResult = [kind |-> "return", from |-> k + 1]
           ELSE /\ calls = max_attempts
                /\ Len(delays) = max_attempts - 1
                /\ retryResult = [kind |-> "raise", from |-> max_attempts]

\* max_attempts = 3, two failures, then success
C9_Witness ==
    /\ rpc = "done"
    /\ max_attempts = 3
    /\ AllRetryable(script, exceptions)
    /\ LeadingFailures(script) = 2
    /\ calls = 3
    /\ Len(delays) = 2
    /\ retryResult.kind = "return"

NonMatching(sc, excs) == {j \in DOMAIN sc : sc[j] # "ok" /\ sc[j] \notin excs}

\* C10: an exception that does not match `exceptions` reaches the caller from
\* the attempt in which it was raised: that call is the last one, no delay
\* follows it, however many attempts remain.
C10_NonMatchingPropagates ==
    /\ (rpc = "sleep" => script[calls] \in exceptions)
    /\ (rpc = "done" /\ \E j \in NonMatching(script, exceptions) : j <= calls)
       => LET j == CHOOSE j \in NonMatching(script, exceptions) :
                      \A i \in NonMatching(script, exceptions) : j <= i
          IN  /\ calls = j
              /\ retryResult = [kind |-> "raise", from |-> j]
              /\ Len(delays) = j - 1

\* a non-matching exception at the first of three attempts
C10_Witness ==
    /\ rpc = "done"
    /\ max_attempts = 3
    /\ calls = 1
    /\ script[1] \in ExceptionClasses \ exceptions
    /\ retryResult = [kind |-> "raise", from |-> 1]
    /\ delays = <<>>

RECURSIVE Pow(_, _)
Pow(b, n) == IF n = 0 THEN 1 ELSE b * Pow(b, n - 1)

\* C23: the k-th delay of a call is initial_delay * backoff^(k-1); one delay
\* separates two consecutive invocations, none follows the last invocation,
\* be it a success or the final failure, so that at most max_attempts - 1
\* delays are taken.
C23_BackoffDelays ==
    /\ \A k \in DOMAIN delays : delays[k] = delay * Pow(backoff, k - 1)
    /\ Len(delays) = (IF rpc = "loop" \/ calls = 0 THEN calls ELSE calls - 1)
    /\ (rpc # "idle" /\ max_attempts >= 1) => Len(delays) <= max_attempts - 1

\* three attempts from delay 3 with multiplier 2: delays 3 and 6
C23_Witness ==
    /\ rpc = "done"
    /\ max_attempts = 3
    /\ delays = <<3, 6>>
    /\ calls = 3
    /\ retryResult.kind = "raise"

\* C29: with max_attempts >= 1 a finished call has returned the value of
\* one of its invocations or let the exception of one out, never the
\* wrapper's trailing None; with max_attempts <= 0 the function is not
\* invoked and the call ends with that None, no exception and no delay.
C29_TrailingReturnUnreachable ==
    rpc = "done" =>
        IF max_attempts >= 1
        THEN /\ retryResult.kind \in {"return", "raise"}
             /\ retryResult.from = calls
             /\ calls >= 1
        ELSE /\ retryResult = [kind |-> "None", from |-> 0]
             /\ calls = 0
             /\ delays = <<>>

\* a call with max_attempts = 0 that ended with None
C29_Witness ==
    /\ rpc = "done"
    /\ max_attempts = 0
    /\ wrapper = "sync"
    /\ retryResult.kind = "None"
    /\ calls = 0

\* the loop condition and the try statement of wrapper w
WrapperWhile(w, a, m) ==
    IF w = "sync" THEN sync_wrapper_while(a, m) ELSE async_wrapper_while(a, m)

WrapperTry(w, a, m, outcome, excs) ==
    IF w = "sync" THEN sync_wrapper_try(a, m, outcome, excs)
    ELSE async_wrapper_try(a, m, outcome, excs)

\* what wrapper w makes of the decorator arguments and script of the current
\* call, from attempt a with current delay cd after n invocations and the
\* delays ds: the invocations made, the delays slept and the result
RECURSIVE WrapperRun(_, _, _, _, _)
WrapperRun(w, a, cd, n, ds) ==
    IF ~WrapperWhile(w, a, max_attempts)
    THEN [calls |-> n, delays |-> ds, result |-> [kind |-> "None", from |-> 0]]
    ELSE LET outcome == IF n + 1 \in DOMAIN script THEN script[n + 1] ELSE "ok"
             step == WrapperTry(w, a, max_attempts, outcome, exceptions)
         IN  IF step = "sleep"
             THEN WrapperRun(w, a + 1, next_delay(cd, backoff), n + 1, Append(ds, cd))
             ELSE [calls |-> n + 1, delays |-> ds,
                   result |-> [kind |-> step, from |-> n + 1]]

OtherWrapper(w) == IF w = "sync" THEN "async" ELSE "sync"

\* C11: for the same decorator arguments and the same sequence of outcomes
\* of the wrapped function, a finished call through one wrapper has made
\* the invocations, slept the delays and returned the value or raised the
\* exception that the other wrapper makes of them.
C11_SyncAsyncEquivalent ==
    rpc = "done" =>
        [calls |-> calls, delays |-> delays, result |-> retryResult]
            = WrapperRun(OtherWrapper(wrapper), 1, delay, 0, <<>>)

\* an async call that slept twice and then let the third failure out
C11_Witness ==
    /\ rpc = "done"
    /\ wrapper = "async"
    /\ calls = 3
    /\ Len(delays) = 2
    /\ backoff = 2
    /\ delay = 1
    /\ retryResult = [kind |-> "raise", from |-> 3]


\* C24: once the caller has cancelled an async call suspended in the delay
\* between two attempts, the wrapped function is not invoked again and the
\* wrapper has ended with the CancelledError, not with a value or with an
\* exception of the function, whatever the `exceptions` argument is.
C24_CancelHonoured ==
    /\ [](cancelled =>
            /\ rpc = "done"
            /\ retryResult = [kind |-> "CancelledError", from |-> 0]
            /\ Len(delays) = calls - 1)
    /\ [][cancelled => calls' = calls]_vars

\* cancelled in the delay after the first failure, with attempts left and
\* an `exceptions` argument that CancelledError matches
C24_Witness ==
    /\ cancelled
    /\ rpc = "done"
    /\ wrapper = "async"
    /\ "CancelledError" \in exceptions
    /\ calls = 1
    /\ max_attempts = 3
    /\ retryResult.kind = "CancelledError"


(***************************************************************************)
(* PerformanceMonitor                                                      *)
(*                                                                         *)
(* A dict is the sequence of its entries in insertion order, each entry a  *)
(* record holding its key and the fields of its value.  Times are whole    *)
(* numbers; timestamps and the uptime are left out.                        *)
(***************************************************************************)
ToolNames == {"t1", "t2"}

ExecutionTimes == {1, 2}

ModelTypes == {"google"}

ModelNames == {"m1", "m2"}

ResponseTimes == {1, 2}

ErrorTypes == {"e1", "e2"}

ErrorMessages == {"x", "y"}

\* the position of key in dict d, 0 when it is not there
IndexOf(d, key) ==
    IF \E i \in DOMAIN d : d[i].key = key
    THEN CHOOSE i \in DOMAIN d : d[i].key = key
    ELSE 0

\* an `if key not in` that installs the fresh entry over the one there
setdefault_overwriting(d, fresh) ==
    IF IndexOf(d, fresh.key) = 0 THEN Append(d, fresh)
    ELSE [d EXCEPT ![IndexOf(d, fresh.key)] = fresh]

\* d with the entry `fresh` appended unless its key is there
setdefault(d, fresh) == IF IndexOf(d, fresh.key) = 0 THEN Append(d, fresh) ELSE d

\* PerformanceMonitor.__init__
EmptyMetrics ==
    [tool_executions |-> <<>>, model_requests |-> <<>>, api_calls |-> <<>>,
     errors |-> <<>>, response_times |-> <<>>]

\* a recording that counts the call but neither its success nor its failure
record_tool_execution_uncounted_failure(m, tool_name, execution_time, success) ==
    LET d == setdefault(m.tool_executions,
                 [key |-> tool_name, count |-> 0, total_time |-> 0,
                  successes |-> 0, failures |-> 0])
        i == IndexOf(d, tool_name)
        stats == d[i]
    IN  [m EXCEPT !.tool_executions =
            [d EXCEPT ![i] =
                [stats EXCEPT !.count = stats.count + 1,
                              !.total_time = stats.total_time + execution_time,
                              !.successes = IF success THEN stats.successes + 1
                                            ELSE stats.successes]]]

\* the metrics after record_tool_execution(tool_name, execution_time, success)
record_tool_execution(m, tool_name, execution_time, success) ==
    LET d == setdefault(m.tool_executions,
                 [key |-> tool_name, count |-> 0, total_time |-> 0,
                  successes |-> 0, failures |-> 0])
        i == IndexOf(d, tool_name)
        stats == d[i]
    IN  [m EXCEPT !.tool_executions =
            [d EXCEPT ![i] =
                [stats EXCEPT !.count = stats.count + 1,
                              !.total_time = stats.total_time + execution_time,
                              !.successes = IF success THEN stats.successes + 1
                                            ELSE stats.successes,
                              !.failures = IF success THEN stats.failures
                                           ELSE stats.failures + 1]]]

\* f"{model_type}:{model_name}"
model_key(model_type, model_name) == <<model_type, ":", model_name>>

\* the metrics after record_model_request(model_type, model_name,
\* response_time); avg_time is the quotient total_time / count, kept as the
\* pair <<total_time, count>>
record_model_request(m, model_type, model_name, response_time) ==
    LET key == model_key(model_type, model_name)
        d == setdefault(m.model_requests,
                 [key |-> key, count |-> 0, total_time |-> 0, avg_time |-> <<0, 1>>])
        i == IndexOf(d, key)
        stats == d[i]
    IN  [m EXCEPT !.model_requests =
            [d EXCEPT ![i] =
                [key |-> key,
                 count |-> stats.count + 1,
                 total_time |-> stats.total_time + response_time,
                 avg_time |-> <<stats.total_time + response_time, stats.count + 1>>]]]

\* the metrics after record_error(error_type, error_message)
record_error(m, error_type, error_message) ==
    LET d == setdefault(m.errors, [key |-> error_type, count |-> 0, messages |-> <<>>])
        i == IndexOf(d, error_type)
        stats == d[i]
    IN  [m EXCEPT !.errors =
            [d EXCEPT ![i] =
                [stats EXCEPT !.count = stats.count + 1,
                              !.messages = Append(stats.messages,
                                                  [message |-> error_message])]]]

\* sum(stats["count"] for stats in d.values())
RECURSIVE sum_counts(_)
sum_counts(d) == IF d = <<>> THEN 0 ELSE d[1].count + sum_counts(Tail(d))

\* a maximum that moves on to a later entry of equal count
RECURSIVE max_count_last(_, _, _)
max_count_last(d, i, best) ==
    IF i > Len(d) THEN best
    ELSE max_count_last(d, i + 1, IF d[i].count >= d[best].count THEN i ELSE best)

\* max(d.items(), key=count): the position of the first entry, in iteration
\* order, whose count no later entry exceeds; d is not empty
RECURSIVE max_count(_, _, _)
max_count(d, i, best) ==
    IF i > Len(d) THEN best
    ELSE max_count(d, i + 1, IF d[i].count > d[best].count THEN i ELSE best)

\* max(..., default=("none", {"count": 0}))[0]
most_used_tool(d) == IF d = <<>> THEN "none" ELSE d[max_count(d, 2, 1)].key

\* the object the "metrics" field of a summary refers to: self.metrics
\* itself, not a copy
MetricsRef == "self.metrics"

\* the value get_summary() returns for the metrics m
get_summary(m) ==
    [total_tool_executions |-> sum_counts(m.tool_executions),
     total_model_requests |-> sum_counts(m.model_requests),
     total_errors |-> sum_counts(m.errors),
     most_used_tool |-> most_used_tool(m.tool_executions),
     metrics |-> MetricsRef]

NoSummary == [metrics |-> "none"]

NoCalls == [n |-> 0, total |-> 0]

\* what the recording calls have in common
Recorded ==
    /\ UNCHANGED nonMonitorVars
    /\ nRec' = nRec + 1
    /\ stale' = TRUE
    /\ UNCHANGED <<summary, health, probe>>

RecordToolExecutionWith(tool_name, execution_time, success) ==
    /\ Recorded
    /\ metrics' = record_tool_execution(metrics, tool_name, execution_time, success)
    /\ toolCalls' = [toolCalls EXCEPT
                        ![tool_name] = [n |-> @.n + 1, total |-> @.total + execution_time]]
    /\ UNCHANGED errCalls

RecordToolExecution ==
    /\ nRec < MaxRecords
    /\ \E tool_name \in ToolNames, execution_time \in ExecutionTimes, success \in BOOLEAN :
            RecordToolExecutionWith(tool_name, execution_time, success)

RecordModelRequestWith(model_type, model_name, response_time) ==
    /\ Recorded
    /\ metrics' = record_model_request(metrics, model_type, model_name, response_time)
    /\ UNCHANGED <<toolCalls, errCalls>>

RecordModelRequest ==
    /\ nRec < MaxRecords
    /\ \E model_type \in ModelTypes, model_name \in ModelNames,
          response_time \in ResponseTimes :
            RecordModelRequestWith(model_type, model_name, response_time)

RecordErrorWith(error_type, error_message) ==
    /\ Recorded
    /\ metrics' = record_error(metrics, error_type, error_message)
    /\ errCalls' = [errCalls EXCEPT ![error_type] = Append(@, error_message)]
    /\ UNCHANGED toolCalls

RecordError ==
    /\ nRec < MaxRecords
    /\ \E error_type \in ErrorTypes, error_message \in ErrorMessages :
            RecordErrorWith(error_type, error_message)

\* a caller takes a summary and keeps it
GetSummary ==
    /\ UNCHANGED nonMonitorVars
    /\ summary' = get_summary(metrics)
    /\ stale' = FALSE
    /\ UNCHANGED <<metrics, toolCalls, errCalls, nRec, health, probe>>


(***************************************************************************)
(* HealthChecker.check_system_health                                       *)
(*                                                                         *)
(* A check ends with the usage percentage it computed, or with the         *)
(* exception it raised: "ImportError" when psutil cannot be imported,      *)
(* "raise" for any other exception.                                        *)
(***************************************************************************)
Percents == {89, 90, 91}

Usage(p) == [kind |-> "usage", percent |-> p]

Raised(class) == [kind |-> class, percent |-> 0]

DiskOutcomes == {Usage(p) : p \in Percents} \cup {Raised("raise")}

MemoryOutcomes == {Usage(p) : p \in Percents} \cup {Raised("raise"), Raised("ImportError")}

\* the component entry of a check that got its percentage
usage_entry(percent) ==
    [status |-> IF percent < 90 THEN "healthy" ELSE "warning",
     usage_percent |-> percent]

\* the disk try statement: the component entry, and what it appends to the
\* warnings and to the errors
disk_check(o) ==
    IF o.kind = "usage"
    THEN [entry |-> usage_entry(o.percent),
          warnings |-> IF o.percent > 90 THEN <<"Disk usage is above 90%">> ELSE <<>>,
          errors |-> <<>>]
    ELSE [entry |-> [status |-> "error", error |-> o.kind],
          warnings |-> <<>>,
          errors |-> <<"Disk check failed">>]

\* a memory try statement whose first handler takes every exception
memory_check_all_unknown(o) ==
    IF o.kind = "usage"
    THEN [entry |-> usage_entry(o.percent),
          warnings |-> IF o.percent > 90 THEN <<"Memory usage is above 90%">> ELSE <<>>,
          errors |-> <<>>]
    ELSE [entry |-> [status |-> "unknown", error |-> "psutil not available"],
          warnings |-> <<>>,
          errors |-> <<>>]

\* the memory try statement
memory_check(o) ==
    IF o.kind = "usage"
    THEN [entry |-> usage_entry(o.percent),
          warnings |-> IF o.percent > 90 THEN <<"Memory usage is above 90%">> ELSE <<>>,
          errors |-> <<>>]
    ELSE IF o.kind = "ImportError"
         THEN [entry |-> [status |-> "unknown", error |-> "psutil not available"],
               warnings |-> <<>>,
               errors |-> <<>>]
         ELSE [entry |-> [status |-> "error", error |-> o.kind],
               warnings |-> <<>>,
               errors |-> <<"Memory check failed">>]

\* an aggregation that looks at the warnings first
overall_status_warnings_first(errors, warnings) ==
    IF warnings # <<>> THEN "warning"
    ELSE IF errors # <<>> THEN "unhealthy"
         ELSE "healthy"

\* `if health_status["errors"]: ... elif health_status["warnings"]: ...`
overall_status(errors, warnings) ==
    IF errors # <<>> THEN "unhealthy"
    ELSE IF warnings # <<>> THEN "warning"
         ELSE "healthy"

\* the report of a health check over the metrics m whose disk check ended
\* with d and whose memory check ended with mem
check_system_health(m, d, mem) ==
    LET disk_part == disk_check(d)
        memory_part == memory_check(mem)
        warnings == disk_part.warnings \o memory_part.warnings
        errors == disk_part.errors \o memory_part.errors
    IN  [overall_status |-> overall_status(errors, warnings),
         components |-> [disk |-> disk_part.entry, memory |-> memory_part.entry],
         metrics |-> get_summary(m),
         warnings |-> warnings,
         errors |-> errors]

NoReport == [overall_status |-> "none"]

NoProbe == [disk |-> Raised("none"), memory |-> Raised("none")]

CheckSystemHealthWith(d, mem) ==
    /\ health' = check_system_health(metrics, d, mem)
    /\ probe' = [disk |-> d, memory |-> mem]
    /\ stale' = FALSE
    /\ UNCHANGED <<metrics, toolCalls, errCalls, nRec, summary>>

CheckSystemHealth ==
    /\ UNCHANGED nonMonitorVars
    /\ \E d \in DiskOutcomes, mem \in MemoryOutcomes : CheckSystemHealthWith(d, mem)

InitMonitor ==
    /\ metrics = EmptyMetrics
    /\ toolCalls = [t \in ToolNames |-> NoCalls]
    /\ errCalls = [k \in ErrorTypes |-> <<>>]
    /\ nRec = 0
    /\ summary = NoSummary
    /\ stale = FALSE
    /\ health = NoReport
    /\ probe = NoProbe

NextMonitor ==
    \/ RecordToolExecution
    \/ RecordModelRequest
    \/ RecordError
    \/ GetSummary

\* health checks between the tool executions of a running system
NextHealth ==
    \/ RecordToolExecution
    \/ CheckSystemHealth


DiskWarning == "Disk usage is above 90%"

\* C26: after a health check whose disk check got its percentage, the disk
\* component's status is "warning" exactly when the usage exceeds 90 and
\* "healthy" otherwise, and the disk warning is among the warnings exactly
\* when that status is "warning"; at exactly 90 the status is "healthy" and
\* there is no warning.
C26_DiskThreshold ==
    probe.disk.kind = "usage" =>
        /\ health.components.disk.status =
                (IF probe.disk.percent > 90 THEN "warning" ELSE "healthy")
        /\ (\E i \in DOMAIN health.warnings : health.warnings[i] = DiskWarning)
                <=> health.components.disk.status = "warning"

\* the dicts of self.metrics the recording methods write to
RecordedSections == {"tool_executions", "model_requests", "errors"}

\* the counts an entry of a section holds
CountFields(section) ==
    IF section = "tool_executions" THEN {"count", "successes", "failures"}
    ELSE {"count"}

\* C25: over any sequence of recording calls every count (per tool, per
\* model key, per error kind, successes and failures) is a natural number,
\* no step lowers one, and a key that is in a section stays in it.
C25_CountsMonotone ==
    /\ [](\A sec \in RecordedSections : \A i \in DOMAIN metrics[sec] :
            \A f \in CountFields(sec) : metrics[sec][i][f] \in Nat)
    /\ [][\A sec \in RecordedSections : \A i \in DOMAIN metrics[sec] :
            \E j \in DOMAIN metrics'[sec] :
                /\ metrics'[sec][j].key = metrics[sec][i].key
                /\ \A f \in CountFields(sec) :
                        metrics'[sec][j][f] >= metrics[sec][i][f]]_vars

\* a tool recorded twice, once failing, next to a second tool and an error
C25_Witness ==
    /\ Len(metrics.tool_executions) = 2
    /\ metrics.tool_executions[1].count = 2
    /\ metrics.tool_executions[1].failures = 1
    /\ metrics.tool_executions[2].count = 1
    /\ Len(metrics.errors) = 1


(***************************************************************************)
(* Claims about HealthChecker (specification SpecHealth)                   *)
(***************************************************************************)
\* C12: the overall_status of a report is "unhealthy" exactly when its
\* error list is non-empty, "warning" exactly when its warning list is
\* non-empty and its error list empty, and "healthy" otherwise.
C12_OverallStatus ==
    health # NoReport =>
        /\ health.overall_status = "unhealthy" <=> health.errors # <<>>
        /\ health.overall_status = "warning"
                <=> (health.warnings # <<>> /\ health.errors = <<>>)
        /\ health.overall_status = "healthy"
                <=> (health.warnings = <<>> /\ health.errors = <<>>)

\* a report with a warning and an error
C12_Witness ==
    /\ health # NoReport
    /\ health.warnings # <<>>
    /\ health.errors # <<>>
    /\ health.overall_status = "unhealthy"

\* the check of component c ended with an exception other than the
\* ImportError that marks psutil as unavailable
CheckRaised(c) == probe[c].kind = "raise"

C14_RecordingTotals ==
    /\ \A t \in ToolNames :
        LET d == metrics.tool_executions
            i == IndexOf(d, t)
        IN  IF toolCalls[t].n = 0 THEN i = 0
            ELSE /\ i # 0
                 /\ d[i].count = toolCalls[t].n
                 /\ d[i].total_time = toolCalls[t].total
                 /\ d[i].successes + d[i].failures = toolCalls[t].n
    /\ \A k \in ErrorTypes :
        LET d == metrics.errors
            i == IndexOf(d, k)
        IN  IF errCalls[k] = <<>> THEN i = 0
            ELSE /\ i # 0
                 /\ d[i].count = Len(errCalls[k])
                 /\ Len(d[i].messages) = Len(errCalls[k])
                 /\ \A j \in DOMAIN errCalls[k] :
                        d[i].messages[j].message = errCalls[k][j]

\* two executions of one tool, one of them failed, and two errors of one type
C14_Witness ==
    /\ toolCalls["t1"] = [n |-> 2, total |-> 3]
    /\ \E i \in DOMAIN metrics.tool_executions :
            /\ metrics.tool_executions[i].key = "t1"
            /\ metrics.tool_executions[i].failures = 1
    /\ errCalls["e1"] = <<"y", "x">>

\* C15: a summary just returned has total_tool_executions,
\* total_model_requests and total_errors equal to the sums of the per-key
\* counts of the metrics, and most_used_tool is "none" when no tool was
\* recorded, else the key of an entry of greatest count that was inserted
\* before every other entry of that count.
C15_SummaryTotals ==
    (summary # NoSummary /\ ~stale) =>
        LET d == metrics.tool_executions IN
        /\ summary.total_tool_executions = sum_counts(d)
        /\ summary.total_tool_executions = toolCalls["t1"].n + toolCalls["t2"].n
        /\ summary.total_model_requests = sum_counts(metrics.model_requests)
        /\ summary.total_errors = sum_counts(metrics.errors)
        /\ summary.total_errors = Len(errCalls["e1"]) + Len(errCalls["e2"])
        /\ IF d = <<>> THEN summary.most_used_tool = "none"
           ELSE \E i \in DOMAIN d :
                    /\ summary.most_used_tool = d[i].key
                    /\ \A j \in DOMAIN d : d[j].count <= d[i].count
                    /\ \A j \in 1..(i - 1) : d[j].count < d[i].count

\* two tools of equal count: the one inserted first is the most used
C15_Witness ==
    /\ summary # NoSummary
    /\ ~stale
    /\ Len(metrics.tool_executions) = 2
    /\ metrics.tool_executions[1].count = metrics.tool_executions[2].count
    /\ summary.most_used_tool = metrics.tool_executions[1].key
    /\ summary.total_tool_executions >= 2


\* the dict a summary's "metrics" field gives when it is read now
SummaryMetrics(s) == IF s.metrics = MetricsRef THEN metrics ELSE EmptyMetrics

\* C20: a summary a caller holds is a point-in-time value: whatever was
\* recorded after it was returned, its total_tool_executions,
\* total_model_requests and total_errors equal the sums of the per-key
\* counts found under its "metrics" field.
C20_SummaryIsSnapshot ==
    summary # NoSummary =>
        /\ summary.total_tool_executions
                = sum_counts(SummaryMetrics(summary).tool_executions)
        /\ summary.total_model_requests
                = sum_counts(SummaryMetrics(summary).model_requests)
        /\ summary.total_errors = sum_counts(SummaryMetrics(summary).errors)


(***************************************************************************)
(* InputValidator.validate_file_path                                       *)
(*                                                                         *)
(* A path is the sequence of its characters; pathlib is the POSIX flavour. *)
(***************************************************************************)
PathChars == {".", "/", ":", "\\", "a"}

RECURSIVE PathsOfLen(_)
PathsOfLen(n) ==
    IF n = 0 THEN {<<>>}
    ELSE {Append(p, c) : p \in PathsOfLen(n - 1), c \in PathChars}

\* dangerous_paths of TestSecurity.test_path_traversal_prevention
DangerousPaths ==
    {
     <<".", ".", "/", ".", ".", "/", ".", ".", "/", "e", "t", "c",
       "/", "p", "a", "s", "s", "w", "d">>,
     <<".", ".", "\\", ".", ".", "\\", "w", "i", "n", "d", "o", "w",
       "s", "\\", "s", "y", "s", "t", "e", "m", "3", "2">>,
     <<"/", "e", "t", "c", "/", "p", "a", "s", "s", "w", "d">>,
     <<"C", ":", "\\", "W", "i", "n", "d", "o", "w", "s", "\\", "S",
       "y", "s", "t", "e", "m", "3", "2">>
    }

Paths == UNION {PathsOfLen(n) : n \in 0..MaxPathLen} \cup DangerousPaths

\* s.split(c)
RECURSIVE split_on(_, _)
split_on(s, c) ==
    IF \A i \in DOMAIN s : s[i] # c THEN <<s>>
    ELSE LET k == CHOOSE i \in DOMAIN s :
                    s[i] = c /\ \A j \in 1..(i - 1) : s[j] # c
         IN  <<SubSeq(s, 1, k - 1)>> \o split_on(SubSeq(s, k + 1, Len(s)), c)

\* c.join(parts)
RECURSIVE join(_, _)
join(parts, c) ==
    IF parts = <<>> THEN <<>>
    ELSE IF Len(parts) = 1 THEN parts[1]
         ELSE parts[1] \o <<c>> \o join(Tail(parts), c)

\* prefix in s / s.startswith(prefix)
startswith(s, prefix) ==
    Len(s) >= Len(prefix) /\ SubSeq(s, 1, Len(prefix)) = prefix

contains(s, sub) ==
    \E i \in 0..(Len(s) - Len(sub)) : SubSeq(s, i + 1, i + Len(sub)) = sub

\* str(Path(path)): the root is kept ("//" when the path starts with exactly
\* two slashes), empty and "." components are dropped, the others are joined
\* by one slash each, and a path with nothing left is "."
path_str(path) ==
    LET root == IF startswith(path, <<"/", "/">>) /\ ~startswith(path, <<"/", "/", "/">>)
                THEN <<"/", "/">>
                ELSE IF startswith(path, <<"/">>) THEN <<"/">> ELSE <<>>
        parts == SelectSeq(split_on(path, "/"), LAMBDA x : x # <<>> /\ x # <<".">>)
    IN  IF root = <<>> /\ parts = <<>> THEN <<".">>
        ELSE root \o join(parts, "/")

\* validate_file_path(path, must_exist), exists being what
\* path_obj.exists() answers
validate_file_path(path, must_exist, exists) ==
    LET s == path_str(path)
    IN  IF contains(s, <<".", ".">>) \/ startswith(s, <<"/">>) THEN "False"
        ELSE IF must_exist /\ ~exists THEN "False"
             ELSE "True"

ValidateFilePathWith(path, must_exist, exists) ==
    /\ UNCHANGED nonValidatorVars
    /\ vpath' = path
    /\ vmust_exist' = must_exist
    /\ vexists' = exists
    /\ vresult' = validate_file_path(path, must_exist, exists)

\* one call, on a path, a flag and a file system drawn here
ValidateFilePath ==
    /\ vresult = "none"
    /\ \E path \in Paths, must_exist \in BOOLEAN, exists \in BOOLEAN :
            ValidateFilePathWith(path, must_exist, exists)

InitValidator ==
    /\ vpath = <<>>
    /\ vmust_exist = FALSE
    /\ vexists = FALSE
    /\ vresult = "none"

NextValidator == ValidateFilePath


(***************************************************************************)
(* Claims about InputValidator (specification SpecValidator)               *)
(***************************************************************************)
\* C19: validate_file_path answers False for every path that contains
\* "..", starts with "/" or contains ":", the four dangerous paths of the
\* test among them.
C19_DangerousPathsRejected ==
    (/\ vresult # "none"
     /\ \/ contains(vpath, <<".", ".">>)
        \/ startswith(vpath, <<"/">>)
        \/ contains(vpath, <<":">>)
        \/ vpath \in DangerousPaths)
        => vresult = "False"


(***************************************************************************)
(* PerformanceMonitor.record_tool_execution, called from several threads   *)
(*                                                                         *)
(* The method holds no lock.  Each caller runs its statements in order,    *)
(* and another caller may run between the test and the store of the        *)
(* first-write creation, and between the read and the write of each `+=`.  *)
(* The per-key dicts are objects of a heap: tslot is the object bound to   *)
(* tool_executions[tool_name] (0 while the key is absent), and a caller's  *)
(* `stats` is a reference to one of them.  All callers use one tool name.  *)
(***************************************************************************)
Callers == 1..MaxCallers

FreshStats == [count |-> 0, total_time |-> 0, successes |-> 0, failures |-> 0]

\* the field the third `+=` of a call updates
outcome_field(success) == IF success THEN "successes" ELSE "failures"

\* the statements after `stats = ...`, in order: the field read, then the
\* same field written
StatsSteps == <<"count", "total_time", "outcome">>

\* the field of step i for a caller with arguments a
step_field(i, a) ==
    IF StatsSteps[i] = "outcome" THEN outcome_field(a.success) ELSE StatsSteps[i]

\* what step i adds to its field
step_amount(i, a) == IF StatsSteps[i] = "total_time" THEN a.execution_time ELSE 1

\* a position inside the method: a statement, and for the `+=` statements
\* the step it belongs to
At(stmt, i) == [stmt |-> stmt, step |-> i]

CallerUnchanged == UNCHANGED <<nonCallerVars>>

\* a caller enters record_tool_execution(tool_name, execution_time, success)
CallerEnter ==
    /\ CallerUnchanged
    /\ \E c \in Callers, execution_time \in ExecutionTimes, success \in BOOLEAN :
        /\ tpc[c] = At("idle", 0)
        /\ tpc' = [tpc EXCEPT ![c] = At("test", 0)]
        /\ targs' = [targs EXCEPT ![c] = [execution_time |-> execution_time,
                                          success |-> success]]
        /\ UNCHANGED <<theap, tslot, tstats, ttmp>>

\* `if tool_name not in self.metrics["tool_executions"]`
CallerTest ==
    /\ CallerUnchanged
    /\ \E c \in Callers :
        /\ tpc[c] = At("test", 0)
        /\ tpc' = [tpc EXCEPT ![c] = IF tslot = 0 THEN At("create", 0) ELSE At("load", 0)]
        /\ UNCHANGED <<theap, tslot, tstats, ttmp, targs>>

\* `self.metrics["tool_executions"][tool_name] = {...}`: a new dict object
\* is bound to the key, whatever was bound to it
CallerCreate ==
    /\ CallerUnchanged
    /\ \E c \in Callers :
        /\ tpc[c] = At("create", 0)
        /\ theap' = Append(theap, FreshStats)
        /\ tslot' = Len(theap) + 1
        /\ tpc' = [tpc EXCEPT ![c] = At("load", 0)]
        /\ UNCHANGED <<tstats, ttmp, targs>>

\* `stats = self.metrics["tool_executions"][tool_name]`
CallerLoad ==
    /\ CallerUnchanged
    /\ \E c \in Callers :
        /\ tpc[c] = At("load", 0)
        /\ tstats' = [tstats EXCEPT ![c] = tslot]
        /\ tpc' = [tpc EXCEPT ![c] = At("read", 1)]
        /\ UNCHANGED <<theap, tslot, ttmp, targs>>

\* the read of `stats[field] += amount`
CallerRead ==
    /\ CallerUnchanged
    /\ \E c \in Callers, i \in DOMAIN StatsSteps :
        /\ tpc[c] = At("read", i)
        /\ ttmp' = [ttmp EXCEPT ![c] = theap[tstats[c]][step_field(i, targs[c])]]
        /\ tpc' = [tpc EXCEPT ![c] = At("write", i)]
        /\ UNCHANGED <<theap, tslot, tstats, targs>>

\* the write of `stats[field] += amount`; after the last one the call returns
CallerWrite ==
    /\ CallerUnchanged
    /\ \E c \in Callers, i \in DOMAIN StatsSteps :
        /\ tpc[c] = At("write", i)
        /\ theap' = [theap EXCEPT ![tstats[c]][step_field(i, targs[c])] =
                        ttmp[c] + step_amount(i, targs[c])]
        /\ tpc' = [tpc EXCEPT ![c] = IF i = Len(StatsSteps) THEN At("done", 0)
                                     ELSE At("read", i + 1)]
        /\ UNCHANGED <<tslot, tstats, ttmp, targs>>

InitCallers ==
    /\ theap = <<>>
    /\ tslot = 0
    /\ tpc = [c \in Callers |-> At("idle", 0)]
    /\ tstats = [c \in Callers |-> 0]
    /\ ttmp = [c \in Callers |-> 0]
    /\ targs = [c \in Callers |-> [execution_time |-> 0, success |-> FALSE]]

NextCallers ==
    \/ CallerEnter
    \/ CallerTest
    \/ CallerCreate
    \/ CallerLoad
    \/ CallerRead
    \/ CallerWrite


(***************************************************************************)
(* Claims about concurrent recording (specification SpecCallers)           *)
(***************************************************************************)
RECURSIVE SumTimes(_)
SumTimes(n) == IF n = 0 THEN 0 ELSE targs[n].execution_time + SumTimes(n - 1)

\* C21: when every one of the K concurrent calls for one tool name has
\* returned, the entry of that name has count K, total_time the sum of the
\* K durations and successes + failures = K.
C21_NoLostIncrement ==
    (\A c \in Callers : tpc[c] = At("done", 0)) =>
        /\ tslot # 0
        /\ theap[tslot].count = MaxCallers
        /\ theap[tslot].total_time = SumTimes(MaxCallers)
        /\ theap[tslot].successes + theap[tslot].failures = MaxCallers


(***************************************************************************)
(* ConfigManager.set, called from several threads on one namespace         *)
(*                                                                         *)
(* set holds no lock.  The dicts are objects of a heap: an object maps its *)
(* keys to entries, an entry being a leaf value or a reference to another  *)
(* object; sns is the object bound to self._configs[config_name] (0 while  *)
(* the namespace is absent) and a setter's `config` is a reference.        *)
(* Another setter may run between any two statements.  json.dump into the  *)
(* file is taken as one step.                                              *)
(***************************************************************************)
Setters == 1..MaxSetters

\* the dotted keys the setters use: "a.x", "a.y", "b"
SetterKeys == {<<"a", ".", "x">>, <<"a", ".", "y">>, <<"b">>}

SetterValues == {"1", "2"}

LeafEntry(v) == [ref |-> 0, val |-> v]

RefEntry(id) == [ref |-> id, val |-> DICT]

EmptyObject == [k \in {} |-> LeafEntry("")]

\* d[k] = e on a dict object
Store(d, k, e) == [j \in DOMAIN d \cup {k} |-> IF j = k THEN e ELSE d[j]]

\* the paths of the value held by object id of heap h
RECURSIVE PathsOf(_, _)
PathsOf(h, id) ==
    {<<>>} \cup UNION {
        {<<k>> \o q : q \in (IF h[id][k].ref = 0 THEN {<<>>}
                             ELSE PathsOf(h, h[id][k].ref))} : k \in DOMAIN h[id]}

\* the tag at path p of the value held by object id
RECURSIVE TagAt(_, _, _)
TagAt(h, id, p) ==
    IF p = <<>> THEN DICT
    ELSE LET e == h[id][Head(p)]
         IN  IF e.ref = 0 THEN e.val ELSE TagAt(h, e.ref, Tail(p))

\* the JSON value object id holds, as json.dump walks it
TreeOf(h, id) == [p \in PathsOf(h, id) |-> TagAt(h, id, p)]

SetterUnchanged == UNCHANGED nonSetterVars

\* a setter enters set(key, value)
SetterEnter ==
    /\ SetterUnchanged
    /\ \E c \in Setters, key \in SetterKeys, value \in SetterValues :
        /\ spc[c] = At("idle", 0)
        /\ spc' = [spc EXCEPT ![c] = At("test_ns", 0)]
        /\ skeys' = [skeys EXCEPT ![c] = split(key)]
        /\ svalue' = [svalue EXCEPT ![c] = value]
        /\ UNCHANGED <<sheap, sns, sconfig, sfile>>

\* `if config_name not in self._configs`
SetterTestNs ==
    /\ SetterUnchanged
    /\ \E c \in Setters :
        /\ spc[c] = At("test_ns", 0)
        /\ spc' = [spc EXCEPT ![c] = IF sns = 0 THEN At("create_ns", 0)
                                     ELSE At("load_ns", 0)]
        /\ UNCHANGED <<sheap, sns, sconfig, skeys, svalue, sfile>>

\* `self._configs[config_name] = {}`
SetterCreateNs ==
    /\ SetterUnchanged
    /\ \E c \in Setters :
        /\ spc[c] = At("create_ns", 0)
        /\ sheap' = Append(sheap, EmptyObject)
        /\ sns' = Len(sheap) + 1
        /\ spc' = [spc EXCEPT ![c] = At("load_ns", 0)]
        /\ UNCHANGED <<sconfig, skeys, svalue, sfile>>

\* the statement after the i-th pass of `for k in keys[:-1]`
AfterPass(keys, i) ==
    IF i + 1 < Len(keys) THEN At("test_key", i + 1) ELSE At("store", Len(keys))

\* `config = self._configs[config_name]`
SetterLoadNs ==
    /\ SetterUnchanged
    /\ \E c \in Setters :
        /\ spc[c] = At("load_ns", 0)
        /\ sconfig' = [sconfig EXCEPT ![c] = sns]
        /\ spc' = [spc EXCEPT ![c] = AfterPass(skeys[c], 0)]
        /\ UNCHANGED <<sheap, sns, skeys, svalue, sfile>>

\* `if k not in config`
SetterTestKey ==
    /\ SetterUnchanged
    /\ \E c \in Setters, i \in 1..MaxKeyParts :
        /\ spc[c] = At("test_key", i)
        /\ spc' = [spc EXCEPT ![c] =
                      IF skeys[c][i] \notin DOMAIN sheap[sconfig[c]]
                      THEN At("create_key", i) ELSE At("descend", i)]
        /\ UNCHANGED <<sheap, sns, sconfig, skeys, svalue, sfile>>

\* `config[k] = {}`
SetterCreateKey ==
    /\ SetterUnchanged
    /\ \E c \in Setters, i \in 1..MaxKeyParts :
        /\ spc[c] = At("create_key", i)
        /\ sheap' = Append([sheap EXCEPT ![sconfig[c]] =
                                Store(@, skeys[c][i], RefEntry(Len(sheap) + 1))],
                           EmptyObject)
        /\ spc' = [spc EXCEPT ![c] = At("descend", i)]
        /\ UNCHANGED <<sns, sconfig, skeys, svalue, sfile>>

\* `config = config[k]`; the setters store leaves only under their last
\* key, so a prefix key is bound to a dict
SetterDescend ==
    /\ SetterUnchanged
    /\ \E c \in Setters, i \in 1..MaxKeyParts :
        /\ spc[c] = At("descend", i)
        /\ sheap[sconfig[c]][skeys[c][i]].ref # 0
        /\ sconfig' = [sconfig EXCEPT ![c] = sheap[sconfig[c]][skeys[c][i]].ref]
        /\ spc' = [spc EXCEPT ![c] = AfterPass(skeys[c], i)]
        /\ UNCHANGED <<sheap, sns, skeys, svalue, sfile>>

\* `config[keys[-1]] = value`
SetterStore ==
    /\ SetterUnchanged
    /\ \E c \in Setters, i \in 1..MaxKeyParts :
        /\ spc[c] = At("store", i)
        /\ sheap' = [sheap EXCEPT ![sconfig[c]] =
                        Store(@, skeys[c][i], LeafEntry(svalue[c]))]
        /\ spc' = [spc EXCEPT ![c] = At("save", 0)]
        /\ UNCHANGED <<sns, sconfig, skeys, svalue, sfile>>

\* `self._save_config(config_name)`, then set returns
SetterSave ==
    /\ SetterUnchanged
    /\ \E c \in Setters :
        /\ spc[c] = At("save", 0)
        /\ sfile' = TreeOf(sheap, sns)
        /\ spc' = [spc EXCEPT ![c] = At("done", 0)]
        /\ UNCHANGED <<sheap, sns, sconfig, skeys, svalue>>

InitSetters ==
    /\ sheap = <<>>
    /\ sns = 0
    /\ spc = [c \in Setters |-> At("idle", 0)]
    /\ sconfig = [c \in Setters |-> 0]
    /\ skeys = [c \in Setters |-> <<>>]
    /\ svalue = [c \in Setters |-> ""]
    /\ sfile = NoFile

NextSetters ==
    \/ SetterEnter
    \/ SetterTestNs
    \/ SetterCreateNs
    \/ SetterLoadNs
    \/ SetterTestKey
    \/ SetterCreateKey
    \/ SetterDescend
    \/ SetterStore
    \/ SetterSave


(***************************************************************************)
(* Claims about concurrent set (specification SpecSetters)                 *)
(***************************************************************************)
\* C22: when concurrent set calls with pairwise different dotted keys have
\* all returned, every one of their values is found under its key in the
\* namespace in memory and in the persisted file.
C22_NoLostSet ==
    (/\ \A c \in Setters : spc[c] = At("done", 0)
     /\ \A c, e \in Setters : c # e => skeys[c] # skeys[e])
        => \A c \in Setters :
            /\ skeys[c] \in DOMAIN TreeOf(sheap, sns)
            /\ TreeOf(sheap, sns)[skeys[c]] = svalue[c]
            /\ skeys[c] \in DOMAIN sfile
            /\ sfile[skeys[c]] = svalue[c]


Init ==
    /\ InitDeploy /\ InitConfig /\ InitRetry /\ InitMonitor /\ InitValidator
    /\ InitCallers /\ InitSetters

SpecDeploy == Init /\ [][NextDeploy]_vars

SpecConfig == Init /\ [][NextConfig]_vars

SpecRetry == Init /\ [][NextRetry]_vars

SpecCancel == Init /\ [][NextCancel]_vars

SpecMonitor == Init /\ [][NextMonitor]_vars

SpecHealth == Init /\ [][NextHealth]_vars

SpecValidator == Init /\ [][NextValidator]_vars

SpecCallers == Init /\ [][NextCallers]_vars

SpecSetters == Init /\ [][NextSetters]_vars

Next ==
    \/ NextDeploy \/ NextConfig \/ NextRetry \/ NextCancel \/ NextMonitor \/ NextHealth
    \/ NextValidator \/ NextCallers \/ NextSetters

====
